---- MODULE Spec2Model ----
(***************************************************************************)
(* A model of go-freeipa: the session protocol of Client (Connect,         *)
(* ConnectWithKerberos, login, Do) and the pure functions of the request   *)
(* builder and the response decoder (NewRequest, ParseResponse,            *)
(* unauthorizedHTTPError, DictAtIndex, GetAtIndex).                        *)
(*                                                                         *)
(* Go strings that are only compared or concatenated are TLA+ strings.     *)
(* Strings whose characters the code inspects (the format string handed    *)
(* to fmt.Errorf) are sequences of one-character strings; Str turns such a *)
(* sequence into a TLA+ string.                                            *)
(***************************************************************************)
EXTENDS Integers, Sequences, FiniteSets, TLC

VARIABLES
    client,        \* the *Client returned by Connect / ConnectWithKerberos
    connectErr,    \* the error returned by Connect / ConnectWithKerberos
    connectLogin,  \* history: the HTTP exchange of the initial login
    calls,         \* one record per Client.Do call (its position and locals)
    op,            \* pure-function runs: the function applied ("none" before)
    input,         \* pure-function runs: its arguments
    output         \* pure-function runs: its result

vars == <<client, connectErr, connectLogin, calls, op, input, output>>

sessionVars == <<client, connectErr, connectLogin, calls>>
pureVars == <<op, input, output>>

----------------------------------------------------------------------------
(* Bounds *)

\* Number of Client.Do calls that may run concurrently on the one Client.
NumCalls == 2
\* Longest server-supplied error name / message, in characters.
MaxLen == 2
\* Longest positional argument list handed to NewRequest.
MaxArgs == 2
\* Longest list payload of a Result.
MaxList == 2

Calls == 1..NumCalls

----------------------------------------------------------------------------
(* Program constants *)

apiVersion == "2.237"

StatusOK == 200
StatusUnauthorized == 401

InvalidSessionPasswordCode == 1201
PasswordExpiredCode == 1202
KrbPrincipalExpiredCode == 1203
UserLockedCode == 1204
GenericErrorCode == 5000

passwordExpiredUnauthorizedReason == "password-expired"
invalidSessionPasswordUnauthorizedReason == "invalid-password"
krbPrincipalExpiredUnauthorizedReason == "krbprincipal-expired"
userLockedUnauthorizedReason == "user-locked"

\* The nil error.
NoErr == "<nil>"

----------------------------------------------------------------------------
(* Character-level strings *)

RECURSIVE Str(_)
Str(s) == IF s = <<>> THEN "" ELSE Head(s) \o Str(Tail(s))

DigitChars == <<"0", "1", "2", "3", "4", "5", "6", "7", "8", "9">>

\* Decimal rendering of an integer, as %v and %d print it.
RECURSIVE ItoaNat(_)
ItoaNat(n) == IF n < 10 THEN <<DigitChars[n + 1]>>
              ELSE ItoaNat(n \div 10) \o <<DigitChars[(n % 10) + 1]>>

Itoa(n) == IF n < 0 THEN <<"-">> \o ItoaNat(0 - n) ELSE ItoaNat(n)

----------------------------------------------------------------------------
(* fmt.Errorf / fmt.Sprintf, character by character *)

\* The flag characters doPrintf skips after a '%'.
FlagChars == {"#", "0", "+", "-", " "}

DigitSet == {DigitChars[i] : i \in 1..10}

\* First position >= i of f whose character is not in set (Len(f)+1 if none).
RECURSIVE SkipWhile(_, _, _)
SkipWhile(f, i, set) ==
    IF i <= Len(f) /\ f[i] \in set THEN SkipWhile(f, i + 1, set) ELSE i

NoVerbChars == <<"%", "!", "(", "N", "O", "V", "E", "R", "B", ")">>

MissingChars(verb) ==
    <<"%", "!", verb, "(", "M", "I", "S", "S", "I", "N", "G", ")">>

\* fmt's doPrintf with an empty operand list, from position i of format f:
\* text is copied up to the next '%'; after it flags and a width are skipped;
\* no verb left prints %!(NOVERB), the verb '%' prints '%', and any other
\* verb finds no operand and prints %!verb(MISSING).  (Precision, '*' and
\* argument indexes need '.', '*' and '[', which the alphabets below lack.)
RECURSIVE doPrintf(_, _)
doPrintf(f, i) ==
    IF i > Len(f) THEN <<>>
    ELSE IF f[i] # "%" THEN <<f[i]>> \o doPrintf(f, i + 1)
    ELSE LET j == SkipWhile(f, i + 1, FlagChars)
             k == SkipWhile(f, j, DigitSet)
         IN  IF k > Len(f) THEN NoVerbChars
             ELSE IF f[k] = "%" THEN <<"%">> \o doPrintf(f, k + 1)
             ELSE MissingChars(f[k]) \o doPrintf(f, k + 1)

\* fmt.Errorf(format) with no operands: the error's text.
Errorf(format) == Str(doPrintf(format, 1))

----------------------------------------------------------------------------
(* JSON values, as encoding/json decodes them into interface{} *)

JNull == [t |-> "null"]
JBool(b) == [t |-> "bool", v |-> b]
JStr(s) == [t |-> "str", v |-> s]
JList(a) == [t |-> "list", v |-> a]
JMap(m) == [t |-> "map", v |-> m]
\* A Go value json.Marshal rejects (a channel, a func): only in requests.
JChan == [t |-> "chan"]

EmptyMap == [k \in {} |-> JNull]

\* A Go map[string]interface{} argument: nil, or a map that can be written.
NilMap == [nil |-> TRUE, m |-> EmptyMap]
GoMap(m) == [nil |-> FALSE, m |-> m]

\* A run-time panic (index out of range, assignment to an entry of a nil
\* map) instead of a return.
Panic == [panic |-> TRUE]

----------------------------------------------------------------------------
(* response.go: Message, Result, Response, ParseResponse *)

\* A nil *Message, *Result, *Response.
NilMessage == [nil |-> TRUE]
NilResult == [nil |-> TRUE]
NilResponse == [nil |-> TRUE]

\* *Message: Name and Message are character sequences.
Message(name, code, message) ==
    [nil |-> FALSE, Name |-> name, Code |-> code, Message |-> message]

\* *Result: only the polymorphic Result field is modelled.
Result(payload) == [nil |-> FALSE, Result |-> payload]

Response(error, result) == [nil |-> FALSE, Error |-> error, Result |-> result]

\* Message.string: fmt.Sprintf("%v (%v): %v", t.Name, t.Code, t.Message).
MessageString(t) ==
    t.Name \o <<" ", "(">> \o Itoa(t.Code) \o <<")", ":", " ">> \o t.Message

\* A body as the server wrote it: malformed for the struct (a syntax error or
\* a field of the wrong JSON type), or an object whose "error" and "result"
\* members are each absent, null or an object.
AbsentField == [st |-> "absent"]
NullField == [st |-> "null"]
ErrorField(name, code, message) ==
    [st |-> "object", name |-> name, code |-> code, message |-> message]
ResultField(payload) == [st |-> "object", result |-> payload]

MalformedBody == [json |-> "bad"]
Body(error, result) == [json |-> "ok", error |-> error, result |-> result]

\* json.NewDecoder(body).Decode(res) into a new Response: an absent or null
\* member leaves the pointer nil.
Decode(body) ==
    IF body.json # "ok" THEN [res |-> NilResponse, err |-> "invalid character"]
    ELSE [res |-> Response(
                    IF body.error.st = "object"
                    THEN Message(body.error.name, body.error.code,
                                 body.error.message)
                    ELSE NilMessage,
                    IF body.result.st = "object"
                    THEN Result(body.result.result)
                    ELSE NilResult),
          err |-> NoErr]

\* ParseResponse with its two checks in the other order.
ParseResponseResultFirst(body) ==
    LET d == Decode(body)
    IN  IF d.err # NoErr THEN [res |-> NilResponse, err |-> d.err]
        ELSE IF d.res.Result.nil
        THEN [res |-> NilResponse, err |-> "no result in response"]
        ELSE IF ~d.res.Error.nil
        THEN [res |-> NilResponse, err |-> Errorf(MessageString(d.res.Error))]
        ELSE [res |-> d.res, err |-> NoErr]

\* ParseResponse(body) (*Response, error)
ParseResponse(body) ==
    LET d == Decode(body)
    IN  IF d.err # NoErr THEN [res |-> NilResponse, err |-> d.err]
        ELSE IF ~d.res.Error.nil
        THEN [res |-> NilResponse, err |-> Errorf(MessageString(d.res.Error))]
        ELSE IF d.res.Result.nil
        THEN [res |-> NilResponse, err |-> "no result in response"]
        ELSE [res |-> d.res, err |-> NoErr]

----------------------------------------------------------------------------
(* response.go: DictAtIndex, GetAtIndex *)

NotOk == [panic |-> FALSE, ok |-> FALSE, v |-> JNull]
Ok(v) == [panic |-> FALSE, ok |-> TRUE, v |-> v]

\* (r *Response) DictAtIndex(index int): the guard is len(a) < index, so
\* a[index] is evaluated for every index <= len(a); Go panics when index is
\* negative or equal to len(a).  A failed assertion returns the nil map.
DictAtIndex(r, index) ==
    IF r.Result.nil THEN NotOk
    ELSE LET a == r.Result.Result
         IN  IF a.t # "list" THEN NotOk
             ELSE IF Len(a.v) < index THEN NotOk
             ELSE IF index < 0 \/ index >= Len(a.v) THEN Panic
             ELSE LET d == a.v[index + 1]
                  IN  IF d.t = "map" THEN Ok(d) ELSE NotOk

\* (r *Response) GetAtIndex(index int, key string): a value that is not a
\* list is wrapped in a one-element list.
GetAtIndex(r, index, key) ==
    LET dict == DictAtIndex(r, index)
    IN  IF dict.panic THEN Panic
        ELSE IF ~dict.ok THEN NotOk
        ELSE IF key \notin DOMAIN dict.v.v THEN NotOk
        ELSE LET v == dict.v.v[key]
             IN  IF v.t # "list" THEN Ok(JList(<<v>>)) ELSE Ok(v)

----------------------------------------------------------------------------
(* response.go: CountResults, Dict, Get and the typed accessors *)

\* A (value, ok) return.  A nil slice and an empty slice are both <<>>.
Ret(v, ok) == [panic |-> FALSE, ok |-> ok, v |-> v]

\* A JSON number (float64 after decoding).
JNum(n) == [t |-> "num", v |-> n]

\* CountResults that answers 0 when the payload is not a list.
CountResultsZero(r) ==
    IF r.Result.nil THEN 0 - 1
    ELSE IF r.Result.Result.t # "list" THEN 0
    ELSE Len(r.Result.Result.v)

\* (r *Response) CountResults() int
CountResults(r) ==
    IF r.Result.nil THEN 0 - 1
    ELSE IF r.Result.Result.t # "list" THEN 0 - 1
    ELSE Len(r.Result.Result.v)

\* (r *Response) Dict()
Dict(r) ==
    IF r.Result.nil THEN NotOk
    ELSE IF r.Result.Result.t = "map" THEN Ok(r.Result.Result)
    ELSE NotOk

\* Get that hands back only values stored as lists.
GetNoWrap(r, key) ==
    LET dict == Dict(r)
    IN  IF ~dict.ok THEN NotOk
        ELSE IF key \notin DOMAIN dict.v.v THEN NotOk
        ELSE LET v == dict.v.v[key]
             IN  IF v.t # "list" THEN NotOk ELSE Ok(v)

\* (r *Response) Get(key string): a value that is not a list is wrapped in a
\* one-element list.
Get(r, key) ==
    LET dict == Dict(r)
    IN  IF ~dict.ok THEN NotOk
        ELSE IF key \notin DOMAIN dict.v.v THEN NotOk
        ELSE LET v == dict.v.v[key]
             IN  IF v.t # "list" THEN Ok(JList(<<v>>)) ELSE Ok(v)

\* (r *Response) processBool(v interface{})
processBool(v) ==
    IF v.t # "bool" THEN Ret(FALSE, FALSE) ELSE Ret(v.v, TRUE)

\* (r *Response) GetBoolAtIndex(index int, key string)
GetBoolAtIndex(r, index, key) ==
    LET v == GetAtIndex(r, index, key)
    IN  IF v.panic THEN Panic
        ELSE IF ~v.ok \/ Len(v.v.v) < 1 THEN Ret(FALSE, FALSE)
        ELSE processBool(v.v.v[1])

\* (r *Response) GetBool(key string)
GetBool(r, key) ==
    LET v == Get(r, key)
    IN  IF ~v.ok \/ Len(v.v.v) < 1 THEN Ret(FALSE, FALSE)
        ELSE processBool(v.v.v[1])

\* The loop of processString from element i on, res holding the strings
\* appended so far: the first element that is no string returns res, false.
RECURSIVE processStringFrom(_, _, _)
processStringFrom(v, i, res) ==
    IF i > Len(v) THEN Ret(res, TRUE)
    ELSE IF v[i].t # "str" THEN Ret(res, FALSE)
    ELSE processStringFrom(v, i + 1, Append(res, v[i].v))

\* processString that leaves out the elements that are no strings.
RECURSIVE processStringSkipFrom(_, _, _)
processStringSkipFrom(v, i, res) ==
    IF i > Len(v) THEN Ret(res, TRUE)
    ELSE IF v[i].t # "str" THEN processStringSkipFrom(v, i + 1, res)
    ELSE processStringSkipFrom(v, i + 1, Append(res, v[i].v))

processStringSkip(v) == processStringSkipFrom(v, 1, <<>>)

\* (r *Response) processString(v []interface{})
processString(v) == processStringFrom(v, 1, <<>>)

\* (r *Response) GetStringsAtIndex(index int, key string)
GetStringsAtIndex(r, index, key) ==
    LET v == GetAtIndex(r, index, key)
    IN  IF v.panic THEN Panic
        ELSE IF ~v.ok THEN Ret(<<>>, FALSE)
        ELSE processString(v.v.v)

\* (r *Response) GetStrings(key string)
GetStrings(r, key) ==
    LET v == Get(r, key)
    IN  IF ~v.ok THEN Ret(<<>>, FALSE) ELSE processString(v.v.v)

\* (r *Response) GetStringAtIndex(index int, key string)
GetStringAtIndex(r, index, key) ==
    LET v == GetStringsAtIndex(r, index, key)
    IN  IF v.panic THEN Panic
        ELSE IF ~v.ok \/ Len(v.v) < 1 THEN Ret(<<>>, FALSE)
        ELSE Ret(v.v[1], TRUE)

\* GetString that takes the last string of the list.
GetStringLast(r, key) ==
    LET v == GetStrings(r, key)
    IN  IF ~v.ok \/ Len(v.v) < 1 THEN Ret(<<>>, FALSE)
        ELSE Ret(v.v[Len(v.v)], TRUE)

\* (r *Response) GetString(key string)
GetString(r, key) ==
    LET v == GetStrings(r, key)
    IN  IF ~v.ok \/ Len(v.v) < 1 THEN Ret(<<>>, FALSE)
        ELSE Ret(v.v[1], TRUE)

----------------------------------------------------------------------------
(* encoding/base64: StdEncoding.DecodeString, on character sequences *)

\* The 64 characters of the standard encoding, in the order of their values.
B64Alphabet ==
    <<"A", "B", "C", "D", "E", "F", "G", "H", "I", "J", "K", "L", "M",
       "N", "O", "P", "Q", "R", "S", "T", "U", "V", "W", "X", "Y", "Z",
       "a", "b", "c", "d", "e", "f", "g", "h", "i", "j", "k", "l", "m",
       "n", "o", "p", "q", "r", "s", "t", "u", "v", "w", "x", "y", "z",
       "0", "1", "2", "3", "4", "5", "6", "7", "8", "9", "+", "/">>

B64Chars == {B64Alphabet[i] : i \in 1..64}

B64Value(ch) == (CHOOSE i \in 1..64 : B64Alphabet[i] = ch) - 1

B64Error == [err |-> TRUE, bytes |-> <<>>]

\* The decoder from position i of s, four characters at a time: two data
\* characters and "==" give one byte, three and "=" two bytes, four give
\* three bytes; padding must end the input; a missing or foreign character
\* is an error.  (The decoder also skips '\r' and '\n', which the inputs
\* below lack.)
RECURSIVE DecodeStringFrom(_, _)
DecodeStringFrom(s, i) ==
    IF i > Len(s) THEN [err |-> FALSE, bytes |-> <<>>]
    ELSE IF Len(s) < i + 3 THEN B64Error
    ELSE IF s[i] \notin B64Chars \/ s[i + 1] \notin B64Chars THEN B64Error
    ELSE LET v0 == B64Value(s[i])
             v1 == B64Value(s[i + 1])
             b0 == v0 * 4 + (v1 \div 16)
         IN  IF s[i + 2] = "="
             THEN IF s[i + 3] = "=" /\ i + 3 = Len(s)
                  THEN [err |-> FALSE, bytes |-> <<b0>>]
                  ELSE B64Error
             ELSE IF s[i + 2] \notin B64Chars THEN B64Error
             ELSE LET v2 == B64Value(s[i + 2])
                      b1 == (v1 % 16) * 16 + (v2 \div 4)
                  IN  IF s[i + 3] = "="
                      THEN IF i + 3 = Len(s)
                           THEN [err |-> FALSE, bytes |-> <<b0, b1>>]
                           ELSE B64Error
                      ELSE IF s[i + 3] \notin B64Chars THEN B64Error
                      ELSE LET b2 == (v2 % 4) * 64 + B64Value(s[i + 3])
                               rest == DecodeStringFrom(s, i + 4)
                           IN  IF rest.err THEN B64Error
                               ELSE [err |-> FALSE,
                                     bytes |-> <<b0, b1, b2>> \o rest.bytes]

\* base64.StdEncoding.DecodeString(s)
DecodeString(s) == DecodeStringFrom(s, 1)

----------------------------------------------------------------------------
(* time.Parse(LDAPGeneralizedTimeFormat, value), on character sequences *)

\* The layout "20060102150405Z": year, month, day, hour, minute and second
\* as digits, then the literal 'Z'.
IsDigit(s, i) == i <= Len(s) /\ s[i] \in DigitSet

DigitValue(ch) == (CHOOSE i \in 1..10 : DigitChars[i] = ch) - 1

\* The number the digits s[a..b] spell.
RECURSIVE NumberAt(_, _, _)
NumberAt(s, a, b) ==
    IF b < a THEN 0 ELSE NumberAt(s, a, b - 1) * 10 + DigitValue(s[b])

RECURSIVE Pow10(_)
Pow10(n) == IF n <= 0 THEN 1 ELSE 10 * Pow10(n - 1)

\* time's getnum: one or two digits at pos, exactly two when fixed.
getnum(s, pos, fixed) ==
    IF ~IsDigit(s, pos) THEN [err |-> TRUE, n |-> 0, next |-> pos]
    ELSE IF ~IsDigit(s, pos + 1)
    THEN IF fixed THEN [err |-> TRUE, n |-> 0, next |-> pos]
         ELSE [err |-> FALSE, n |-> DigitValue(s[pos]), next |-> pos + 1]
    ELSE [err |-> FALSE, n |-> NumberAt(s, pos, pos + 1), next |-> pos + 2]

isLeap(year) == year % 4 = 0 /\ (year % 100 # 0 \/ year % 400 = 0)

daysIn(month, year) ==
    IF month = 2 THEN (IF isLeap(year) THEN 29 ELSE 28)
    ELSE IF month \in {4, 6, 9, 11} THEN 30 ELSE 31

Time(year, month, day, hour, min, sec, nsec) ==
    [year |-> year, month |-> month, day |-> day, hour |-> hour,
     min |-> min, sec |-> sec, nsec |-> nsec]

\* time.Time{}
ZeroTime == Time(1, 1, 1, 0, 0, 0, 0)

TimeError == [err |-> TRUE, t |-> ZeroTime]

\* The end of the parse from position p, just after the seconds: a '.' or
\* ',' followed by a digit is read as a fractional second although the
\* layout has none; then the literal 'Z' must end the value; the day is
\* checked against the month last.
parseAfterSeconds(s, p, year, month, day, hour, min, sec) ==
    LET frac == p + 1 <= Len(s) /\ s[p] \in {".", ","} /\ IsDigit(s, p + 1)
        q == IF frac THEN SkipWhile(s, p + 1, DigitSet) ELSE p
        digits == IF q - p - 1 > 9 THEN 9 ELSE q - p - 1
        nsec == IF frac
                THEN NumberAt(s, p + 1, p + digits) * Pow10(9 - digits)
                ELSE 0
    IN  IF q # Len(s) \/ s[q] # "Z" THEN TimeError
        ELSE IF day < 1 \/ day > daysIn(month, year) THEN TimeError
        ELSE [err |-> FALSE,
              t |-> Time(year, month, day, hour, min, sec, nsec)]

\* time.Parse(LDAPGeneralizedTimeFormat, s)
timeParse(s) ==
    IF Len(s) < 4 \/ ~(\A i \in 1..4 : IsDigit(s, i)) THEN TimeError
    ELSE LET year == NumberAt(s, 1, 4)
             month == getnum(s, 5, TRUE)
         IN  IF month.err \/ month.n <= 0 \/ 12 < month.n THEN TimeError
             ELSE LET day == getnum(s, month.next, TRUE)
                  IN  IF day.err THEN TimeError
                      ELSE LET hour == getnum(s, day.next, FALSE)
                           IN  IF hour.err \/ 24 <= hour.n THEN TimeError
                               ELSE LET min == getnum(s, hour.next, TRUE)
                                    IN  IF min.err \/ 60 <= min.n
                                        THEN TimeError
                                        ELSE LET sec == getnum(s, min.next, TRUE)
                                             IN  IF sec.err \/ 60 <= sec.n
                                                 THEN TimeError
                                                 ELSE parseAfterSeconds(
                                                        s, sec.next, year,
                                                        month.n, day.n, hour.n,
                                                        min.n, sec.n)

----------------------------------------------------------------------------
(* response.go: the binary and the timestamp accessors *)

\* The loop of processData from element i on: an element that is no mapping,
\* has no "__base64__" key, holds no string there or does not decode returns
\* res, false.
RECURSIVE processDataFrom(_, _, _)
processDataFrom(v, i, res) ==
    IF i > Len(v) THEN Ret(res, TRUE)
    ELSE IF v[i].t # "map" THEN Ret(res, FALSE)
    ELSE IF "__base64__" \notin DOMAIN v[i].v THEN Ret(res, FALSE)
    ELSE IF v[i].v["__base64__"].t # "str" THEN Ret(res, FALSE)
    ELSE LET d == DecodeString(v[i].v["__base64__"].v)
         IN  IF d.err THEN Ret(res, FALSE)
             ELSE processDataFrom(v, i + 1, Append(res, d.bytes))

\* (r *Response) processData(v []interface{})
processData(v) == processDataFrom(v, 1, <<>>)

\* (r *Response) GetDatasAtIndex(index int, key string)
GetDatasAtIndex(r, index, key) ==
    LET v == GetAtIndex(r, index, key)
    IN  IF v.panic THEN Panic
        ELSE IF ~v.ok THEN Ret(<<>>, FALSE)
        ELSE processData(v.v.v)

\* (r *Response) GetDatas(key string)
GetDatas(r, key) ==
    LET v == Get(r, key)
    IN  IF ~v.ok THEN Ret(<<>>, FALSE) ELSE processData(v.v.v)

\* (r *Response) GetDataAtIndex(index int, key string)
GetDataAtIndex(r, index, key) ==
    LET v == GetDatasAtIndex(r, index, key)
    IN  IF v.panic THEN Panic
        ELSE IF ~v.ok \/ Len(v.v) < 1 THEN Ret(<<>>, FALSE)
        ELSE Ret(v.v[1], TRUE)

\* (r *Response) GetData(key string)
GetData(r, key) ==
    LET v == GetDatas(r, key)
    IN  IF ~v.ok \/ Len(v.v) < 1 THEN Ret(<<>>, FALSE)
        ELSE Ret(v.v[1], TRUE)

\* The loop of processDateTime from element i on: an element that is no
\* mapping, has no "__datetime__" key, holds no string there or does not
\* parse returns res, false.
RECURSIVE processDateTimeFrom(_, _, _)
processDateTimeFrom(v, i, res) ==
    IF i > Len(v) THEN Ret(res, TRUE)
    ELSE IF v[i].t # "map" THEN Ret(res, FALSE)
    ELSE IF "__datetime__" \notin DOMAIN v[i].v THEN Ret(res, FALSE)
    ELSE IF v[i].v["__datetime__"].t # "str" THEN Ret(res, FALSE)
    ELSE LET d == timeParse(v[i].v["__datetime__"].v)
         IN  IF d.err THEN Ret(res, FALSE)
             ELSE processDateTimeFrom(v, i + 1, Append(res, d.t))

\* (r *Response) processDateTime(v []interface{})
processDateTime(v) == processDateTimeFrom(v, 1, <<>>)

\* (r *Response) GetDateTimesAtIndex(index int, key string)
GetDateTimesAtIndex(r, index, key) ==
    LET v == GetAtIndex(r, index, key)
    IN  IF v.panic THEN Panic
        ELSE IF ~v.ok THEN Ret(<<>>, FALSE)
        ELSE processDateTime(v.v.v)

\* (r *Response) GetDateTimes(key string)
GetDateTimes(r, key) ==
    LET v == Get(r, key)
    IN  IF ~v.ok THEN Ret(<<>>, FALSE) ELSE processDateTime(v.v.v)

\* (r *Response) GetDateTimeAtIndex(index int, key string)
GetDateTimeAtIndex(r, index, key) ==
    LET v == GetDateTimesAtIndex(r, index, key)
    IN  IF v.panic THEN Panic
        ELSE IF ~v.ok \/ Len(v.v) < 1 THEN Ret(ZeroTime, FALSE)
        ELSE Ret(v.v[1], TRUE)

\* (r *Response) GetDateTime(key string)
GetDateTime(r, key) ==
    LET v == GetDateTimes(r, key)
    IN  IF ~v.ok \/ Len(v.v) < 1 THEN Ret(ZeroTime, FALSE)
        ELSE Ret(v.v[1], TRUE)

----------------------------------------------------------------------------
(* errors: unauthorizedHTTPError *)

\* The code unauthorizedHTTPError's switch picks for a rejection reason.
errorCode(rejectionReason) ==
    CASE rejectionReason = passwordExpiredUnauthorizedReason -> PasswordExpiredCode
      [] rejectionReason = invalidSessionPasswordUnauthorizedReason ->
            InvalidSessionPasswordCode
      [] rejectionReason = krbPrincipalExpiredUnauthorizedReason ->
            KrbPrincipalExpiredCode
      [] rejectionReason = userLockedUnauthorizedReason -> UserLockedCode
      [] OTHER -> GenericErrorCode

\* unauthorizedHTTPError that ignores the header.
unauthorizedHTTPErrorGeneric(rejectionReason) ==
    "unauthorized response <" \o rejectionReason \o "> ("
        \o ToString(GenericErrorCode) \o ")"

\* unauthorizedHTTPError(resp): rejectionReason is the value of the
\* X-Ipa-Rejection-Reason header, "" when the header is absent.
unauthorizedHTTPError(rejectionReason) ==
    "unauthorized response <" \o rejectionReason \o "> ("
        \o ToString(errorCode(rejectionReason)) \o ")"

\* fmt.Errorf("unexpected http status code: %d", res.StatusCode)
unexpectedStatus(status) ==
    "unexpected http status code: " \o ToString(status)

----------------------------------------------------------------------------
(* request.go: Request, NewRequest *)

\* NewRequest that keeps a version the caller supplied.
NewRequestKeepVersion(method, args, parms) ==
    IF parms.nil THEN Panic
    ELSE [Method |-> method,
          Params |-> <<args,
                       GoMap([k \in DOMAIN parms.m \cup {"version"} |->
                                IF k \in DOMAIN parms.m THEN parms.m[k]
                                ELSE JStr(apiVersion)])>>]

\* NewRequest(method, args, parms): parms["version"] = apiVersion, which
\* panics on a nil map, then Params is []interface{}{args, parms}.
NewRequest(method, args, parms) ==
    IF parms.nil THEN Panic
    ELSE [Method |-> method,
          Params |-> <<args,
                       GoMap([k \in DOMAIN parms.m \cup {"version"} |->
                                IF k = "version" THEN JStr(apiVersion)
                                ELSE parms.m[k]])>>]

\* json.Marshal(request) succeeds.
Marshalable(request) ==
    /\ \A i \in 1..Len(request.Params[1]) : request.Params[1][i] # JChan
    /\ \A k \in DOMAIN request.Params[2].m : request.Params[2].m[k] # JChan

----------------------------------------------------------------------------
(* What the server and the network may answer *)

\* One HTTP exchange as the client sees it: a transport error, or a response
\* with a status, the X-Ipa-Rejection-Reason header ("" when absent) and a
\* body.  status 0 stands for "no exchange yet".
TransportError == [err |-> TRUE, status |-> 0, reason |-> "", body |-> MalformedBody]
HTTPResponse(status, reason, body) ==
    [err |-> FALSE, status |-> status, reason |-> reason, body |-> body]
NoExchange == HTTPResponse(0, "", MalformedBody)

\* The text of the error c.client.Do / PostForm returns.
transportErrText == "connection refused"

\* The statuses the server answers with: the two the code tells apart and
\* two of the rest.
Statuses == {StatusOK, StatusUnauthorized, 403, 500}

Reasons == {passwordExpiredUnauthorizedReason,
            invalidSessionPasswordUnauthorizedReason,
            krbPrincipalExpiredUnauthorizedReason,
            userLockedUnauthorizedReason,
            "denied", ""}

\* Answers to a login request; only a 401 carries a rejection reason.
LoginOutcomes ==
    {TransportError}
    \cup {HTTPResponse(st, "", MalformedBody) :
            st \in Statuses \ {StatusUnauthorized}}
    \cup {HTTPResponse(StatusUnauthorized, r, MalformedBody) : r \in Reasons}

\* The bodies a 200 answer of /session/json may carry in the session model.
SessionError == ErrorField(<<"E">>, 909, <<"m">>)
SessionBodies ==
    {MalformedBody,
     Body(AbsentField, AbsentField),
     Body(SessionError, NullField),
     Body(NullField, ResultField(JBool(TRUE))),
     Body(SessionError, ResultField(JBool(TRUE)))}

\* Answers to an RPC request; the body of a non-200 answer is never read.
RPCOutcomes ==
    {TransportError}
    \cup {HTTPResponse(st, "", MalformedBody) : st \in Statuses \ {StatusOK}}
    \cup {HTTPResponse(StatusOK, "", b) : b \in SessionBodies}

\* The requests the callers of the session model hand to Do: one that
\* marshals and one that json.Marshal rejects.
SessionRequests ==
    {NewRequest("user_add", <<JStr("username")>>,
                GoMap([sn |-> JStr("Test")])),
     NewRequest("user_find", <<JChan>>, GoMap(EmptyMap))}

NoRequest == [Method |-> "", Params |-> <<>>]

----------------------------------------------------------------------------
(* client.go: Client, login, loginWithKerberos *)

NoClient == [state |-> "none", krb5 |-> FALSE]

\* The endpoint login() posts to.
loginEndpoint(krb5) ==
    IF krb5 THEN "/session/login_kerberos" ELSE "/session/login_password"

\* (c *Client) loginWithKerberos() error
loginWithKerberos(out) ==
    IF out.err THEN "error logging in using Kerberos: " \o transportErrText
    ELSE IF out.status # StatusOK THEN unexpectedStatus(out.status)
    ELSE NoErr

\* login that always takes the password path.
loginPasswordOnly(krb5, out) ==
    IF out.err THEN transportErrText
    ELSE IF out.status # StatusOK
         THEN IF out.status = StatusUnauthorized
              THEN unauthorizedHTTPError(out.reason)
              ELSE unexpectedStatus(out.status)
    ELSE NoErr

\* (c *Client) login() error; krb5 is c.krb5 != nil.
login(krb5, out) ==
    IF krb5 THEN loginWithKerberos(out)
    ELSE IF out.err THEN transportErrText
    ELSE IF out.status # StatusOK
         THEN IF out.status = StatusUnauthorized
              THEN unauthorizedHTTPError(out.reason)
              ELSE unexpectedStatus(out.status)
    ELSE NoErr

\* The tail of Connect that hands the client out whatever login returned.
connectReturnIgnoreLogin(krb5, initErr, loginErr) ==
    IF initErr # NoErr
    THEN [client |-> [state |-> "nil", krb5 |-> krb5], err |-> initErr]
    ELSE [client |-> [state |-> "ok", krb5 |-> krb5], err |-> NoErr]

\* The tail of Connect and of ConnectWithKerberos: init's error is returned
\* as it is, login's error wrapped, and the client only when both are nil.
connectReturn(krb5, initErr, loginErr) ==
    IF initErr # NoErr
    THEN [client |-> [state |-> "nil", krb5 |-> krb5], err |-> initErr]
    ELSE IF loginErr # NoErr
    THEN [client |-> [state |-> "nil", krb5 |-> krb5],
          err |-> "login failed: " \o loginErr]
    ELSE [client |-> [state |-> "ok", krb5 |-> krb5], err |-> NoErr]

\* The login exchange of a connect or of a Do call, kept as history.
NoLogin == [endpoint |-> "", out |-> NoExchange]
LoginExchange(krb5, out) == [endpoint |-> loginEndpoint(krb5), out |-> out]

----------------------------------------------------------------------------
(* request.go: sendRequest, Do *)

\* (c *Client) sendRequest(request): json.Marshal fails before anything is
\* sent; otherwise the answer of c.client.Do is returned as it is.
sendRequest(request, out) ==
    IF ~Marshalable(request)
    THEN [sent |-> FALSE, res |-> NoExchange, err |-> "json: unsupported type"]
    ELSE IF out.err
    THEN [sent |-> TRUE, res |-> NoExchange, err |-> transportErrText]
    ELSE [sent |-> TRUE, res |-> out, err |-> NoErr]

\* A Do call that has not started.
IdleCall ==
    [pc |-> "idle", req |-> NoRequest, sends |-> 0, logins |-> 0,
     sent |-> <<>>, res1 |-> NoExchange, loginX |-> NoLogin,
     res2 |-> NoExchange, resp |-> NilResponse, err |-> NoErr,
     body1 |-> "none", body2 |-> "none"]

\* The call's counters after one sendRequest.
afterSend(call, r) ==
    [call EXCEPT !.sends = IF r.sent THEN @ + 1 ELSE @,
                 !.sent = IF r.sent THEN Append(@, call.req) ELSE @]

\* Do returns (resp, err): the deferred res.Body.Close() runs, and it closes
\* the body res named when the defer statement ran, the first response's.
return(call, resp, err) ==
    [call EXCEPT !.pc = "done", !.resp = resp, !.err = err,
                 !.body1 = IF @ = "open" THEN "closed" ELSE @]

\* The end of Do on the response res: a status other than 200 is an error,
\* a 200 body goes to ParseResponse.
finish(call, res) ==
    IF res.status # StatusOK
    THEN return(call, NilResponse, unexpectedStatus(res.status))
    ELSE LET p == ParseResponse(res.body)
         IN  return(call, p.res, p.err)

\* Re-authentication on every status other than 200.
needsLoginNon200(status) == status # StatusOK

\* The condition of Do's re-authentication branch.
needsLogin(status) == status = StatusUnauthorized

\* Do up to the answer of the first sendRequest.
doSend1(call, out) ==
    LET r == sendRequest(call.req, out)
        sentCall == afterSend(call, r)
    IN  IF r.err # NoErr THEN return(sentCall, NilResponse, r.err)
        ELSE LET got == [sentCall EXCEPT !.res1 = r.res, !.body1 = "open"]
             IN  IF needsLogin(r.res.status)
                 THEN [got EXCEPT !.pc = "login"]
                 ELSE finish(got, r.res)

\* The re-authentication branch returning login's error as it is.
doLoginUnwrapped(call, krb5, out) ==
    LET e == login(krb5, out)
        logged == [call EXCEPT !.logins = @ + 1,
                               !.loginX = LoginExchange(krb5, out)]
    IN  IF e # NoErr THEN return(logged, NilResponse, e)
        ELSE [logged EXCEPT !.pc = "send2"]

\* The re-authentication branch as a retry loop: a failed login is tried
\* again.
doLoginRetry(call, krb5, out) ==
    LET e == login(krb5, out)
        logged == [call EXCEPT !.logins = @ + 1,
                               !.loginX = LoginExchange(krb5, out)]
    IN  IF e # NoErr THEN logged ELSE [logged EXCEPT !.pc = "send2"]

\* Do's re-authentication branch up to the answer of login.
doLogin(call, krb5, out) ==
    LET e == login(krb5, out)
        logged == [call EXCEPT !.logins = @ + 1,
                               !.loginX = LoginExchange(krb5, out)]
    IN  IF e # NoErr
        THEN return(logged, NilResponse, "renewed login failed: " \o e)
        ELSE [logged EXCEPT !.pc = "send2"]

\* The resend as a loop: a 401 on the resend logs in again.
doSend2Loop(call, out) ==
    LET r == sendRequest(call.req, out)
        sentCall == afterSend(call, r)
    IN  IF r.err # NoErr THEN return(sentCall, NilResponse, r.err)
        ELSE LET got == [sentCall EXCEPT !.res2 = r.res, !.body2 = "open"]
             IN  IF needsLogin(r.res.status)
                 THEN [got EXCEPT !.pc = "login"]
                 ELSE finish(got, r.res)

\* The resend with its result in a shadowed res: Do goes on with the first
\* response.
doSend2Shadowed(call, out) ==
    LET r == sendRequest(call.req, out)
        sentCall == afterSend(call, r)
    IN  IF r.err # NoErr THEN return(sentCall, NilResponse, r.err)
        ELSE finish([sentCall EXCEPT !.res2 = r.res, !.body2 = "open"],
                    call.res1)

\* Do from the resend on: res is now the second response.
doSend2(call, out) ==
    LET r == sendRequest(call.req, out)
        sentCall == afterSend(call, r)
    IN  IF r.err # NoErr THEN return(sentCall, NilResponse, r.err)
        ELSE finish([sentCall EXCEPT !.res2 = r.res, !.body2 = "open"], r.res)

----------------------------------------------------------------------------
(* The session: one Client, NumCalls callers of Do *)

\* init fails when "https://"+host+"/ipa" does not parse as a URL.
initErr(hostOK) == IF hostOK THEN NoErr ELSE "invalid URL"

\* Connect(host, transport, user, password)
Connect(hostOK, out) ==
    /\ client.state = "none"
    /\ LET e == IF hostOK THEN login(FALSE, out) ELSE NoErr
           r == connectReturn(FALSE, initErr(hostOK), e)
       IN  /\ client' = r.client
           /\ connectErr' = r.err
           /\ connectLogin' = IF hostOK THEN LoginExchange(FALSE, out)
                              ELSE NoLogin
    /\ UNCHANGED <<calls, pureVars>>

\* What reading the Kerberos configuration and the keytab may come to.
KrbSetups == {"ok", "bad-config", "bad-keytab-read", "bad-keytab"}

krbSetupErr(setup) ==
    CASE setup = "bad-config" -> "error reading kerberos configuration: eof"
      [] setup = "bad-keytab-read" -> "error reading keytab: eof"
      [] setup = "bad-keytab" -> "error parsing keytab: eof"
      [] OTHER -> NoErr

\* ConnectWithKerberos(host, transport, options)
ConnectWithKerberos(setup, hostOK, out) ==
    /\ client.state = "none"
    /\ IF krbSetupErr(setup) # NoErr
       THEN /\ client' = [state |-> "nil", krb5 |-> TRUE]
            /\ connectErr' = krbSetupErr(setup)
            /\ connectLogin' = NoLogin
       ELSE LET e == IF hostOK THEN login(TRUE, out) ELSE NoErr
                r == connectReturn(TRUE, initErr(hostOK), e)
            IN  /\ client' = r.client
                /\ connectErr' = r.err
                /\ connectLogin' = IF hostOK THEN LoginExchange(TRUE, out)
                                   ELSE NoLogin
    /\ UNCHANGED <<calls, pureVars>>

\* A caller holding the client calls Do(req).
DoCall(c, req) ==
    /\ client.state = "ok"
    /\ calls[c].pc = "idle"
    /\ calls' = [calls EXCEPT ![c] = [@ EXCEPT !.pc = "send1", !.req = req]]
    /\ UNCHANGED <<client, connectErr, connectLogin, pureVars>>

\* The first sendRequest of call c is answered.
DoSend1(c, out) ==
    /\ calls[c].pc = "send1"
    /\ calls' = [calls EXCEPT ![c] = doSend1(@, out)]
    /\ UNCHANGED <<client, connectErr, connectLogin, pureVars>>

\* The login of call c held back while another call is between its login and
\* the answer to its resend.
DoLoginExclusive(c, out) ==
    /\ calls[c].pc = "login"
    /\ \A d \in Calls \ {c} : calls[d].pc # "send2"
    /\ calls' = [calls EXCEPT ![c] = doLogin(@, client.krb5, out)]
    /\ UNCHANGED <<client, connectErr, connectLogin, pureVars>>

\* The login of call c is answered.
DoLogin(c, out) ==
    /\ calls[c].pc = "login"
    /\ calls' = [calls EXCEPT ![c] = doLogin(@, client.krb5, out)]
    /\ UNCHANGED <<client, connectErr, connectLogin, pureVars>>

\* The resend of call c is answered.
DoSend2(c, out) ==
    /\ calls[c].pc = "send2"
    /\ calls' = [calls EXCEPT ![c] = doSend2(@, out)]
    /\ UNCHANGED <<client, connectErr, connectLogin, pureVars>>

Init ==
    /\ client = NoClient
    /\ connectErr = NoErr
    /\ connectLogin = NoLogin
    /\ calls = [c \in Calls |-> IdleCall]
    /\ op = "none"
    /\ input = <<>>
    /\ output = <<>>

Next ==
    \/ \E hostOK \in BOOLEAN, out \in LoginOutcomes : Connect(hostOK, out)
    \/ \E setup \in KrbSetups, hostOK \in BOOLEAN, out \in LoginOutcomes :
          ConnectWithKerberos(setup, hostOK, out)
    \/ \E c \in Calls, req \in SessionRequests : DoCall(c, req)
    \/ \E c \in Calls, out \in RPCOutcomes : DoSend1(c, out)
    \/ \E c \in Calls, out \in LoginOutcomes : DoLogin(c, out)
    \/ \E c \in Calls, out \in RPCOutcomes : DoSend2(c, out)

Spec == Init /\ [][Next]_vars

\* The exchange call c is waiting for is answered.
Answer(c) ==
    \/ \E out \in RPCOutcomes : DoSend1(c, out)
    \/ \E out \in LoginOutcomes : DoLogin(c, out)
    \/ \E out \in RPCOutcomes : DoSend2(c, out)

\* Every HTTP exchange a call is waiting for is eventually answered.
SpecFair == Spec /\ \A c \in Calls : WF_vars(Answer(c))

----------------------------------------------------------------------------
(* The pure functions, each applied once to an input drawn at the start *)

\* All sequences over set of length at most n.
RECURSIVE SeqsUpTo(_, _)
SeqsUpTo(set, n) ==
    IF n = 0 THEN {<<>>}
    ELSE LET shorter == SeqsUpTo(set, n - 1)
         IN  shorter \cup {Append(q, x) : q \in shorter, x \in set}

\* The nil map and all maps from a subset of keys to values.
MapsOver(keys, values) ==
    {NilMap} \cup {GoMap(m) : m \in UNION {[K -> values] : K \in SUBSET keys}}

\* Arguments of NewRequest.
Methods == {"user_add", "user_find"}
ArgValues == {JStr("username"), JBool(TRUE)}
ParamKeys == {"version", "sn"}
ParamValues == {JStr(apiVersion), JStr("1.0"), JBool(TRUE)}

NewRequestInputs ==
    {[fn |-> "NewRequest", method |-> m, args |-> a, parms |-> p] :
        m \in Methods, a \in SeqsUpTo(ArgValues, MaxArgs),
        p \in MapsOver(ParamKeys, ParamValues)}

\* Server-supplied error names and messages: text and '%'.
ErrorChars == {"a", "%"}
ErrorCodes == {0, 909}

ErrorFields ==
    {AbsentField, NullField}
    \cup {ErrorField(n, c, m) : n \in SeqsUpTo(ErrorChars, MaxLen),
                                c \in ErrorCodes,
                                m \in SeqsUpTo(ErrorChars, MaxLen)}

ResultFields ==
    {AbsentField, NullField, ResultField(JBool(TRUE)), ResultField(JNull)}

ParseResponseInputs ==
    {[fn |-> "ParseResponse", body |-> b] :
        b \in {MalformedBody}
              \cup {Body(e, r) : e \in ErrorFields, r \in ResultFields}}

\* Decoded responses for the accessors: no result, a boolean, one entry, or
\* a list whose elements are entries and values that are no mapping.
Entry == JMap([dn |-> JStr("uid=admin"), uid |-> JList(<<JStr("admin")>>)])
ListElements == {Entry, JMap(EmptyMap), JStr("x")}
AccessorKeys == {"dn", "uid", "cn"}

AccessorResponses ==
    {Response(NilMessage, NilResult)}
    \cup {Response(NilMessage, Result(p)) :
            p \in {JBool(TRUE), Entry}
                  \cup {JList(a) : a \in SeqsUpTo(ListElements, MaxList)}}

\* Indexes from below zero to past the longest list.
Indexes == (0 - 1)..(MaxList + 1)

DictAtIndexInputs ==
    {[fn |-> "DictAtIndex", r |-> r, index |-> i] :
        r \in AccessorResponses, i \in Indexes}

GetAtIndexInputs ==
    {[fn |-> "GetAtIndex", r |-> r, index |-> i, key |-> k] :
        r \in AccessorResponses, i \in Indexes, k \in AccessorKeys}

PureInputs ==
    NewRequestInputs \cup ParseResponseInputs \cup DictAtIndexInputs
    \cup GetAtIndexInputs

InitPure ==
    /\ client = NoClient
    /\ connectErr = NoErr
    /\ connectLogin = NoLogin
    /\ calls = [c \in Calls |-> IdleCall]
    /\ op = "none"
    /\ input \in PureInputs
    /\ output = <<>>

ApplyNewRequest ==
    /\ op = "none"
    /\ input.fn = "NewRequest"
    /\ op' = "NewRequest"
    /\ output' = NewRequest(input.method, input.args, input.parms)
    /\ UNCHANGED <<input, sessionVars>>

ApplyParseResponse ==
    /\ op = "none"
    /\ input.fn = "ParseResponse"
    /\ op' = "ParseResponse"
    /\ output' = ParseResponse(input.body)
    /\ UNCHANGED <<input, sessionVars>>

ApplyDictAtIndex ==
    /\ op = "none"
    /\ input.fn = "DictAtIndex"
    /\ op' = "DictAtIndex"
    /\ output' = DictAtIndex(input.r, input.index)
    /\ UNCHANGED <<input, sessionVars>>

ApplyGetAtIndex ==
    /\ op = "none"
    /\ input.fn = "GetAtIndex"
    /\ op' = "GetAtIndex"
    /\ output' = GetAtIndex(input.r, input.index, input.key)
    /\ UNCHANGED <<input, sessionVars>>

NextPure ==
    \/ ApplyNewRequest
    \/ ApplyParseResponse
    \/ ApplyDictAtIndex
    \/ ApplyGetAtIndex

SpecPure == InitPure /\ [][NextPure]_vars

----------------------------------------------------------------------------
(* The accessors of a decoded Response, each applied once to an input drawn
   at the start.  Every JSON string here is a character sequence. *)

TextA == <<"a">>
\* "QQ==" decodes to the one byte 65; "QQ=" is not valid base64.
B64One == <<"Q", "Q", "=", "=">>
B64Bad == <<"Q", "Q", "=">>
\* 2023-08-10 12:00:00 in the layout; with a fractional second; with month
\* 13; without the 'Z'.
StampOK ==
    <<"2", "0", "2", "3", "0", "8", "1", "0", "1", "2", "0", "0", "0", "0",
      "Z">>
StampFraction ==
    <<"2", "0", "2", "3", "0", "8", "1", "0", "1", "2", "0", "0", "0", "0",
      ".", "5", "Z">>
StampBadMonth ==
    <<"2", "0", "2", "3", "1", "3", "1", "0", "1", "2", "0", "0", "0", "0",
      "Z">>
StampNoZ ==
    <<"2", "0", "2", "3", "0", "8", "1", "0", "1", "2", "0", "0", "0", "0">>

\* A tagged wrapper {"<tag>": v}.
Tag(tag, v) == JMap(tag :> v)

BothTags ==
    JMap(("__base64__" :> JStr(B64One)) @@ ("__datetime__" :> JStr(StampOK)))

\* The values an attribute may hold bare or as the one element of a list.
AllElements ==
    {JStr(TextA), JStr(B64One), JBool(TRUE), JNum(1), JNull,
     Tag("__base64__", JStr(B64One)), Tag("__base64__", JStr(B64Bad)),
     Tag("__base64__", JBool(TRUE)),
     Tag("__datetime__", JStr(StampOK)),
     Tag("__datetime__", JStr(StampFraction)),
     Tag("__datetime__", JStr(StampBadMonth)),
     Tag("__datetime__", JStr(StampNoZ)),
     Tag("__datetime__", JNum(1)),
     BothTags}

\* The elements of the longer lists.
ListedElements ==
    {JStr(TextA), JStr(B64One), JBool(TRUE),
     Tag("__base64__", JStr(B64One)), Tag("__base64__", JStr(B64Bad)),
     Tag("__datetime__", JStr(StampOK)),
     Tag("__datetime__", JStr(StampFraction))}

StoredValues ==
    AllElements
    \cup {JList(<<v>>) : v \in AllElements}
    \cup {JList(a) : a \in SeqsUpTo(ListedElements, MaxList)}

\* Payloads: none, values that are no mapping and no list, lists of 0 to
\* MaxList entries, one entry holding a value under "k", and a one-entry list
\* holding it.
ShapePayloads ==
    {JBool(TRUE), JStr(TextA), JNum(1), JNull}
    \cup {JList(a) :
            a \in SeqsUpTo({JMap("k" :> JStr(TextA)), JStr(TextA)}, MaxList)}

AccessResponses ==
    {Response(NilMessage, NilResult)}
    \cup {Response(NilMessage, Result(p)) : p \in ShapePayloads}
    \cup {Response(NilMessage, Result(JMap("k" :> v))) : v \in StoredValues}
    \cup {Response(NilMessage, Result(JList(<<JMap("k" :> v)>>))) :
            v \in StoredValues}

AccessKeys == {"k", "missing"}

PlainAccessors ==
    {"CountResults", "Get", "GetBool", "GetStrings", "GetString", "GetDatas",
     "GetData", "GetDateTimes", "GetDateTime"}

IndexAccessors ==
    {"GetAtIndex", "GetBoolAtIndex", "GetStringsAtIndex", "GetStringAtIndex",
     "GetDatasAtIndex", "GetDataAtIndex", "GetDateTimesAtIndex",
     "GetDateTimeAtIndex"}

\* The indexes handed to the AtIndex accessors: the first entry and the one
\* past it.
AccessIndexes == {0, 1}

\* The accessor named fn applied to r (index and key where it takes them).
Accessor(fn, r, index, key) ==
    CASE fn = "CountResults" -> Ret(CountResults(r), TRUE)
      [] fn = "Get" -> Get(r, key)
      [] fn = "GetBool" -> GetBool(r, key)
      [] fn = "GetStrings" -> GetStrings(r, key)
      [] fn = "GetString" -> GetString(r, key)
      [] fn = "GetDatas" -> GetDatas(r, key)
      [] fn = "GetData" -> GetData(r, key)
      [] fn = "GetDateTimes" -> GetDateTimes(r, key)
      [] fn = "GetDateTime" -> GetDateTime(r, key)
      [] fn = "GetAtIndex" -> GetAtIndex(r, index, key)
      [] fn = "GetBoolAtIndex" -> GetBoolAtIndex(r, index, key)
      [] fn = "GetStringsAtIndex" -> GetStringsAtIndex(r, index, key)
      [] fn = "GetStringAtIndex" -> GetStringAtIndex(r, index, key)
      [] fn = "GetDatasAtIndex" -> GetDatasAtIndex(r, index, key)
      [] fn = "GetDataAtIndex" -> GetDataAtIndex(r, index, key)
      [] fn = "GetDateTimesAtIndex" -> GetDateTimesAtIndex(r, index, key)
      [] fn = "GetDateTimeAtIndex" -> GetDateTimeAtIndex(r, index, key)

InitAccess ==
    /\ client = NoClient
    /\ connectErr = NoErr
    /\ connectLogin = NoLogin
    /\ calls = [c \in Calls |-> IdleCall]
    /\ op = "none"
    /\ \E f \in PlainAccessors \cup IndexAccessors, r \in AccessResponses,
          i \in AccessIndexes, k \in AccessKeys :
          /\ f \in PlainAccessors => i = 0
          /\ input = [fn |-> f, r |-> r, index |-> i, key |-> k]
    /\ output = <<>>

ApplyAccessor(fn) ==
    /\ op = "none"
    /\ input.fn = fn
    /\ op' = fn
    /\ output' = Accessor(fn, input.r, input.index, input.key)
    /\ UNCHANGED <<input, sessionVars>>

NextAccess == \E fn \in PlainAccessors \cup IndexAccessors : ApplyAccessor(fn)

SpecAccess == InitAccess /\ [][NextAccess]_vars

----------------------------------------------------------------------------
(* Properties of the session (checked under Spec) *)

\* The login exchange x was made and login returned nil on it.
LoginSucceeded(x) ==
    x.endpoint # "" /\ ~x.out.err /\ x.out.status = 200

\* The login exchange x was made and login returned an error on it.
LoginFailed(x) ==
    x.endpoint # "" /\ (x.out.err \/ x.out.status # 200)

\* C1: whatever the server answers, a call of Do makes at most one login
\* attempt and sends the request at most twice, and it has sent twice only
\* if the first send was answered 401 and the login after it succeeded.
C1_BoundedRetry ==
    \A c \in Calls :
        /\ calls[c].logins <= 1
        /\ calls[c].sends <= 2
        /\ calls[c].sends = 2 =>
              /\ calls[c].res1.status = 401
              /\ LoginSucceeded(calls[c].loginX)

C1_Witness ==
    \E c \in Calls :
        /\ calls[c].pc = "done"
        /\ calls[c].sends = 2
        /\ calls[c].logins = 1
        /\ calls[c].res2.status = 401

\* C2: after a 401 on the first send and a successful re-login, the same
\* request is sent exactly once more and the answer to it decides what Do
\* returns: a 200 body is parsed as any 200 body is, every other status
\* (a second 401 too) is "unexpected http status code: <status>", and no
\* further login or send is made.
C2_ResendOutcome ==
    \A c \in Calls :
        (/\ calls[c].pc = "done"
         /\ calls[c].res1.status = 401
         /\ LoginSucceeded(calls[c].loginX))
        => /\ calls[c].sends = 2
           /\ calls[c].logins = 1
           /\ calls[c].sent = <<calls[c].req, calls[c].req>>
           /\ calls[c].res2.status = 200 =>
                 [res |-> calls[c].resp, err |-> calls[c].err]
                    = ParseResponse(calls[c].res2.body)
           /\ calls[c].res2.status \in {401, 403, 500} =>
                 /\ calls[c].resp = NilResponse
                 /\ calls[c].err = "unexpected http status code: "
                                      \o ToString(calls[c].res2.status)
           /\ calls[c].res2.status = 0 =>
                 /\ calls[c].resp = NilResponse
                 /\ calls[c].err = transportErrText

C2_Witness ==
    \E c \in Calls :
        /\ calls[c].pc = "done"
        /\ calls[c].res1.status = 401
        /\ LoginSucceeded(calls[c].loginX)
        /\ calls[c].res2.status = 200
        /\ calls[c].resp # NilResponse

\* The errors of a plain unauthorized rejection and of an unexpected status.
PlainErrors ==
    {"unauthorized response <" \o r \o "> (" \o ToString(n) \o ")" :
        r \in Reasons, n \in {1201, 1202, 1203, 1204, 5000}}
    \cup {"unexpected http status code: " \o ToString(st) : st \in Statuses}

\* C3: after a 401 on the first send and a failed re-login (a transport
\* error, a 401 with any rejection reason, any other status), Do returns no
\* Response and the error "renewed login failed: <login error>", does not
\* resend, and that error is none of the plain unauthorized or
\* unexpected-status errors.
C3_RenewedLoginFailure ==
    \A c \in Calls :
        (/\ calls[c].pc = "done"
         /\ calls[c].res1.status = 401
         /\ LoginFailed(calls[c].loginX))
        => /\ calls[c].resp = NilResponse
           /\ calls[c].err = "renewed login failed: "
                                \o login(client.krb5, calls[c].loginX.out)
           /\ login(client.krb5, calls[c].loginX.out) # NoErr
           /\ calls[c].sends = 1
           /\ calls[c].err \notin PlainErrors

C3_Witness ==
    \E c \in Calls :
        /\ calls[c].pc = "done"
        /\ calls[c].res1.status = 401
        /\ ~client.krb5
        /\ calls[c].loginX.out.status = 401
        /\ calls[c].loginX.out.reason = "invalid-password"
        /\ calls[c].err =
              "renewed login failed: unauthorized response <invalid-password> (1201)"

\* C4: only a 401 on the first send leads to a login or a second send; a
\* transport error on the first send, a status that is neither 200 nor 401,
\* a 200 body that does not decode and a 200 body with an error envelope
\* are each returned at once, after no login and exactly one send.
C4_OnlyFirst401Retries ==
    \A c \in Calls :
        /\ (calls[c].logins > 0 \/ calls[c].sends > 1) =>
              calls[c].res1.status = 401
        /\ (calls[c].pc = "done" /\ calls[c].sends >= 1
                /\ calls[c].res1.status # 401) =>
              /\ calls[c].logins = 0
              /\ calls[c].sends = 1
              /\ calls[c].res1.status = 0 =>
                    calls[c].resp = NilResponse
                        /\ calls[c].err = transportErrText
              /\ calls[c].res1.status \in {403, 500} =>
                    calls[c].resp = NilResponse
                        /\ calls[c].err = "unexpected http status code: "
                                             \o ToString(calls[c].res1.status)
              /\ (calls[c].res1.status = 200
                    /\ calls[c].res1.body.json = "bad") =>
                    calls[c].resp = NilResponse
                        /\ calls[c].err = "invalid character"
              /\ (calls[c].res1.status = 200
                    /\ calls[c].res1.body.json = "ok"
                    /\ calls[c].res1.body.error.st = "object") =>
                    calls[c].resp = NilResponse
                        /\ calls[c].err = "E (909): m"

C4_Witness ==
    \E c \in Calls :
        /\ calls[c].pc = "done"
        /\ calls[c].res1.status = 200
        /\ calls[c].res1.body.json = "ok"
        /\ calls[c].res1.body.error.st = "object"
        /\ calls[c].logins = 0
        /\ calls[c].sends = 1

\* C6: Connect and ConnectWithKerberos hand out a client only when the
\* initial login was answered 200; a failed initial login gives no client
\* and the error "login failed: <login error>"; so no request reaches
\* /session/json before a login has succeeded.
C6_ConnectNeedsLogin ==
    /\ client.state = "ok" =>
          LoginSucceeded(connectLogin) /\ connectErr = NoErr
    /\ LoginFailed(connectLogin) =>
          /\ client.state = "nil"
          /\ connectErr = "login failed: "
                             \o login(client.krb5, connectLogin.out)
    /\ \A c \in Calls :
          calls[c].sends > 0 => LoginSucceeded(connectLogin)

C6_Witness ==
    /\ LoginSucceeded(connectLogin)
    /\ \E c \in Calls : calls[c].sends > 0

\* The code the claim gives for each rejection reason.
C7_Code(reason) ==
    CASE reason = "password-expired" -> 1202
      [] reason = "invalid-password" -> 1201
      [] reason = "krbprincipal-expired" -> 1203
      [] reason = "user-locked" -> 1204
      [] OTHER -> 5000

\* What C7 says a password login answered with status and reason fails with.
C7_Expected(out) ==
    IF out.status = 401
    THEN "unauthorized response <" \o out.reason \o "> ("
            \o ToString(C7_Code(out.reason)) \o ")"
    ELSE "unexpected http status code: " \o ToString(out.status)

\* C7: a password login answered 401 fails with "unauthorized response
\* <R> (C)", R the rejection-reason header and C its code (5000 for every
\* unlisted reason and for an absent header); answered with another non-200
\* status it fails with "unexpected http status code: <status>".  Checked on
\* the initial login of Connect and on the re-login of Do.
C7_PasswordLoginErrors ==
    /\ (~client.krb5 /\ connectLogin.endpoint # ""
            /\ connectLogin.out.status \in {401, 403, 500}) =>
          connectErr = "login failed: " \o C7_Expected(connectLogin.out)
    /\ \A c \in Calls :
          (~client.krb5 /\ calls[c].loginX.endpoint # ""
              /\ calls[c].loginX.out.status \in {401, 403, 500}) =>
             calls[c].err = "renewed login failed: "
                               \o C7_Expected(calls[c].loginX.out)

C7_Witness ==
    /\ ~client.krb5
    /\ connectLogin.endpoint = "/session/login_password"
    /\ connectLogin.out.status = 401
    /\ connectLogin.out.reason = ""
    /\ connectErr = "login failed: unauthorized response <> (5000)"

----------------------------------------------------------------------------
(* Properties of the pure functions (checked under SpecPure) *)

\* C5: for every method, argument list and keyword map, the Request that
\* NewRequest builds has Params of exactly two elements, the positional
\* arguments and then the keyword map, whose "version" is apiVersion even
\* when the caller's map held another version, and every other key the
\* caller supplied keeps its value.  A Request is built for every map that
\* is not nil (on a nil map the assignment panics and none is built).
C5_NewRequestParams ==
    op = "NewRequest" =>
        /\ (output = Panic) <=> input.parms.nil
        /\ output # Panic =>
              /\ output.Method = input.method
              /\ Len(output.Params) = 2
              /\ output.Params[1] = input.args
              /\ ~output.Params[2].nil
              /\ DOMAIN output.Params[2].m
                    = DOMAIN input.parms.m \cup {"version"}
              /\ output.Params[2].m["version"] = JStr(apiVersion)
              /\ \A k \in DOMAIN input.parms.m \ {"version"} :
                    output.Params[2].m[k] = input.parms.m[k]

C5_Witness ==
    /\ op = "NewRequest"
    /\ output # Panic
    /\ "version" \in DOMAIN input.parms.m
    /\ input.parms.m["version"] = JStr("1.0")
    /\ output.Params[2].m["version"] = JStr("2.237")
    /\ "sn" \in DOMAIN input.parms.m
    /\ Len(input.args) = 2

\* No '%' in the character sequence q.
NoPercent(q) == \A i \in 1..Len(q) : q[i] # "%"

\* "<name> (<code>): <message>" with the three fields as they are.
VerbatimMessage(e) ==
    Str(e.name) \o " (" \o ToString(e.code) \o "): " \o Str(e.message)

\* C8: on a body that decodes, ParseResponse returns a Response exactly when
\* the envelope has no error and a non-null result; with an error (also
\* beside a result) it fails with the API error; with neither it fails with
\* "no result in response"; it returns a Response or an error, never both
\* and never neither.
C8_ParseResponseCases ==
    op = "ParseResponse" =>
        /\ (output.res = NilResponse) <=> (output.err # NoErr)
        /\ input.body.json = "ok" =>
              LET hasError == input.body.error.st = "object"
                  hasResult == input.body.result.st = "object"
              IN  /\ (output.res # NilResponse) <=> (~hasError /\ hasResult)
                  /\ (~hasError /\ hasResult) =>
                        /\ output.res.Error = NilMessage
                        /\ output.res.Result
                              = Result(input.body.result.result)
                  /\ hasError =>
                        /\ output.err # "no result in response"
                        /\ (NoPercent(input.body.error.name)
                              /\ NoPercent(input.body.error.message)) =>
                              output.err = VerbatimMessage(input.body.error)
                  /\ (~hasError /\ ~hasResult) =>
                        output.err = "no result in response"

C8_Witness ==
    /\ op = "ParseResponse"
    /\ input.body.json = "ok"
    /\ input.body.error.st = "object"
    /\ input.body.result.st = "object"
    /\ output.res = NilResponse
    /\ output.err = "a (909): a"

\* C9: for every server-supplied name, code and message, '%' included, the
\* error of ParseResponse on an error envelope reads exactly
\* "<name> (<code>): <message>".
C9_VerbatimError ==
    (op = "ParseResponse" /\ input.body.json = "ok"
        /\ input.body.error.st = "object") =>
        output.err = VerbatimMessage(input.body.error)

\* C10: DictAtIndex(i) and GetAtIndex(i, key) never fault, and they succeed
\* only when the payload is a list, 0 <= i < its length and the element at i
\* is a mapping.
C10_IndexInBounds ==
    op \in {"DictAtIndex", "GetAtIndex"} =>
        /\ ~output.panic
        /\ output.ok =>
              /\ ~input.r.Result.nil
              /\ input.r.Result.Result.t = "list"
              /\ 0 <= input.index
              /\ input.index < Len(input.r.Result.Result.v)
              /\ input.r.Result.Result.v[input.index + 1].t = "map"

----------------------------------------------------------------------------
(* Concurrent callers and the credential variant (checked under Spec) *)

\* The sum of f[c] over the calls 1..n.
RECURSIVE SumTo(_, _)
SumTo(f, n) == IF n = 0 THEN 0 ELSE f[n] + SumTo(f, n - 1)

\* C14: concurrent calls of Do that saw a 401 each log in and resend on
\* their own: logins total at most NumCalls and sends at most 2 * NumCalls,
\* the pending step of a call can always be taken whatever the other calls
\* are doing, and a call whose login succeeded and whose resend got 200
\* returns what ParseResponse makes of its own resend.
C14_IndependentRelogin ==
    /\ SumTo([c \in Calls |-> calls[c].logins], NumCalls) <= NumCalls
    /\ SumTo([c \in Calls |-> calls[c].sends], NumCalls) <= 2 * NumCalls
    /\ \A c \in Calls :
          /\ calls[c].pc = "send1" =>
                ENABLED (\E out \in RPCOutcomes : DoSend1(c, out))
          /\ calls[c].pc = "login" =>
                ENABLED (\E out \in LoginOutcomes : DoLogin(c, out))
          /\ calls[c].pc = "send2" =>
                ENABLED (\E out \in RPCOutcomes : DoSend2(c, out))
          /\ (calls[c].pc = "done" /\ calls[c].logins = 1
                /\ LoginSucceeded(calls[c].loginX)
                /\ calls[c].sends = 2
                /\ calls[c].res2.status = StatusOK) =>
                /\ calls[c].resp = ParseResponse(calls[c].res2.body).res
                /\ calls[c].err = ParseResponse(calls[c].res2.body).err

\* Two calls in flight at once, each past its own 401 and its own login, one
\* of them back with the Response of its resend.
C14_Witness ==
    /\ calls[1].pc = "done"
    /\ calls[1].logins = 1
    /\ calls[1].sends = 2
    /\ calls[1].resp = Response(NilMessage, Result(JBool(TRUE)))
    /\ calls[2].pc = "send2"
    /\ calls[2].logins = 1
    /\ calls[2].res1.status = StatusUnauthorized

\* The endpoint of the login exchange x is the one of the client's variant.
VariantEndpoint(x) ==
    x # NoLogin =>
        x.endpoint = IF client.krb5 THEN "/session/login_kerberos"
                     ELSE "/session/login_password"

\* The login exchange x was answered with a status other than 200.
Rejected(x) == x # NoLogin /\ ~x.out.err /\ x.out.status # StatusOK

\* C15: the login of Connect/ConnectWithKerberos and every login inside Do
\* go to the endpoint of the variant the client was built with, and a
\* Kerberos login answered with any status other than 200, a 401 with a
\* rejection reason included, fails with "unexpected http status code: N".
C15_VariantFixed ==
    /\ VariantEndpoint(connectLogin)
    /\ \A c \in Calls : VariantEndpoint(calls[c].loginX)
    /\ client.krb5 =>
          /\ Rejected(connectLogin) =>
                connectErr = "login failed: unexpected http status code: "
                                \o ToString(connectLogin.out.status)
          /\ \A c \in Calls :
                Rejected(calls[c].loginX) =>
                    calls[c].err
                        = "renewed login failed: unexpected http status code: "
                            \o ToString(calls[c].loginX.out.status)

\* A Kerberos client whose re-login inside Do was answered 401 with the
\* password-expired reason.
C15_Witness ==
    /\ client.krb5
    /\ connectLogin.endpoint = "/session/login_kerberos"
    /\ calls[1].pc = "done"
    /\ calls[1].loginX.endpoint = "/session/login_kerberos"
    /\ calls[1].loginX.out.status = StatusUnauthorized
    /\ calls[1].loginX.out.reason = passwordExpiredUnauthorizedReason
    /\ calls[1].err = "renewed login failed: unexpected http status code: 401"

\* C19: when Do has returned, every response body it obtained is closed: the
\* first response's and, after a 401 and a successful login, the resent
\* request's.
C19_BodiesClosed ==
    \A c \in Calls :
        calls[c].pc = "done" =>
            /\ calls[c].body1 # "open"
            /\ calls[c].body2 # "open"

\* C20: if every exchange is eventually answered, every call of Do returns,
\* with exactly one of a Response and an error, after at most three
\* exchanges (send, login, resend).
C20_DoReturns ==
    /\ [](\A c \in Calls :
            /\ calls[c].sends + calls[c].logins <= 3
            /\ calls[c].pc = "done" =>
                  (calls[c].resp = NilResponse) # (calls[c].err = NoErr))
    /\ \A c \in Calls : (calls[c].pc = "send1") ~> (calls[c].pc = "done")

\* A call that has returned a Response after send, login and resend.
C20_Witness ==
    /\ calls[2].pc = "done"
    /\ calls[2].sends = 2
    /\ calls[2].logins = 1
    /\ calls[2].resp # NilResponse
    /\ calls[2].err = NoErr

----------------------------------------------------------------------------
(* Properties of the accessors (checked under SpecAccess) *)

\* The mapping an accessor reads: the payload itself for the plain form, the
\* entry at the index for the AtIndex form; <<>> when there is none.
Addressed ==
    IF input.r.Result.nil THEN <<>>
    ELSE LET p == input.r.Result.Result
         IN  IF input.fn \in PlainAccessors
             THEN IF p.t = "map" THEN <<p.v>> ELSE <<>>
             ELSE IF p.t = "list" /\ 0 <= input.index
                        /\ input.index < Len(p.v)
                        /\ p.v[input.index + 1].t = "map"
                  THEN <<p.v[input.index + 1].v>>
                  ELSE <<>>

KeyPresent == Addressed # <<>> /\ input.key \in DOMAIN Addressed[1]

\* The value list under the key: a list as stored, anything else as the one
\* element of a list.
Normalized ==
    LET v == Addressed[1][input.key]
    IN  IF v.t = "list" THEN v.v ELSE <<v>>

\* A response holding v under "k": in the payload mapping, or in the one
\* entry of a list payload.
Holding(listed, v) ==
    IF listed THEN Response(NilMessage, Result(JList(<<JMap("k" :> v)>>)))
    ELSE Response(NilMessage, Result(JMap("k" :> v)))

\* C11: CountResults is the length of a list payload (0 for the empty list)
\* and -1 when the result is absent or the payload is no list.
C11_CountResults ==
    op = "CountResults" =>
        LET isList == ~input.r.Result.nil /\ input.r.Result.Result.t = "list"
        IN  /\ isList => output.v = Len(input.r.Result.Result.v)
            /\ ~isList => output.v = 0 - 1
            /\ (output.v = 0) <=> (isList /\ input.r.Result.Result.v = <<>>)

C11_Witness ==
    /\ op = "CountResults"
    /\ ~input.r.Result.nil
    /\ input.r.Result.Result.t = "list"
    /\ Len(input.r.Result.Result.v) = 2
    /\ output.v = 2

\* C12: an accessor applied to a response holding a value that is no list
\* under the key returns what it returns on the response holding the
\* one-element list of that value.
C12_BareEqualsSingleton ==
    \A v \in AllElements, listed \in BOOLEAN :
        (op \in (PlainAccessors \cup IndexAccessors) \ {"CountResults"}
            /\ input.r = Holding(listed, v)) =>
            output = Accessor(input.fn, Holding(listed, JList(<<v>>)),
                              input.index, input.key)

C12_Witness ==
    /\ op = "GetDateTimeAtIndex"
    /\ input.r = Holding(TRUE, Tag("__datetime__", JStr(StampOK)))
    /\ input.index = 0
    /\ input.key = "k"
    /\ ~output.panic
    /\ output.ok
    /\ output.v = Time(2023, 8, 10, 12, 0, 0, 0)

\* C13: GetStrings and GetStringsAtIndex report ok exactly when the key is
\* present in the addressed mapping and every element of the normalized list
\* is a string, and then return those strings in order.
C13_AllStrings ==
    op \in {"GetStrings", "GetStringsAtIndex"} =>
        LET allStrings ==
                KeyPresent
                /\ \A i \in 1..Len(Normalized) : Normalized[i].t = "str"
        IN  /\ (~output.panic /\ output.ok) <=> allStrings
            /\ allStrings =>
                  output.v = [i \in 1..Len(Normalized) |-> Normalized[i].v]

C13_Witness ==
    /\ op = "GetStrings"
    /\ input.key = "k"
    /\ output.ok
    /\ output.v = <<TextA, B64One>>

\* The plural accessor a singular one reads, and the value the singular one
\* returns with ok = false.
PluralOf(fn) ==
    CASE fn = "GetString" -> "GetStrings"
      [] fn = "GetStringAtIndex" -> "GetStringsAtIndex"
      [] fn = "GetData" -> "GetDatas"
      [] fn = "GetDataAtIndex" -> "GetDatasAtIndex"
      [] fn = "GetDateTime" -> "GetDateTimes"
      [] fn = "GetDateTimeAtIndex" -> "GetDateTimesAtIndex"

ZeroOf(fn) ==
    IF fn \in {"GetDateTime", "GetDateTimeAtIndex"} THEN ZeroTime ELSE <<>>

\* C16: a singular string, binary or timestamp accessor reports ok exactly
\* when its plural accessor reports ok with a non-empty list, and returns
\* that list's first element; otherwise (key absent, payload of the wrong
\* shape, empty list stored, an element of the wrong kind) it returns the
\* zero value with ok = false.
C16_SingularFirst ==
    op \in {"GetString", "GetStringAtIndex", "GetData", "GetDataAtIndex",
            "GetDateTime", "GetDateTimeAtIndex"} =>
        LET pl == Accessor(PluralOf(op), input.r, input.index, input.key)
        IN  IF pl.panic THEN output.panic
            ELSE /\ ~output.panic
                 /\ output.ok <=> (pl.ok /\ pl.v # <<>>)
                 /\ output.ok => output.v = pl.v[1]
                 /\ ~output.ok => output.v = ZeroOf(op)
                 /\ (~KeyPresent \/ Normalized = <<>>) => ~output.ok

\* The first of two stored strings.
C16_Witness ==
    /\ op = "GetString"
    /\ KeyPresent
    /\ Normalized = <<JStr(B64One), JStr(TextA)>>
    /\ output = Ret(B64One, TRUE)

\* s is padded standard base64: a multiple of four characters of the
\* alphabet, the last one or two of which may be '='.
IsStdBase64(s) ==
    /\ Len(s) % 4 = 0
    /\ \A i \in 1..Len(s) :
          \/ s[i] \in {B64Alphabet[k] : k \in 1..64}
          \/ /\ s[i] = "="
             /\ i >= Len(s) - 1
             /\ \A j \in i..Len(s) : s[j] = "="

\* s is fourteen digits followed by 'Z'.
IsLayoutText(s) ==
    /\ Len(s) = 15
    /\ \A i \in 1..14 : s[i] \in {"0", "1", "2", "3", "4", "5", "6", "7",
                                  "8", "9"}
    /\ s[15] = "Z"

\* Every element of the normalized list is a mapping holding a string under
\* tag, and the string satisfies Good.
AllTagged(tag, Good(_)) ==
    /\ KeyPresent
    /\ \A i \in 1..Len(Normalized) :
          LET e == Normalized[i]
          IN  /\ e.t = "map"
              /\ tag \in DOMAIN e.v
              /\ e.v[tag].t = "str"
              /\ Good(e.v[tag].v)

\* C17: GetDatas reports ok only when every element is a mapping with a
\* "__base64__" string that is standard base64, and GetDateTimes only when
\* every element is a mapping with a "__datetime__" string of fourteen
\* digits and 'Z'.
C17_TaggedOnly ==
    /\ (op \in {"GetDatas", "GetDatasAtIndex"} /\ ~output.panic
            /\ output.ok) => AllTagged("__base64__", IsStdBase64)
    /\ (op \in {"GetDateTimes", "GetDateTimesAtIndex"} /\ ~output.panic
            /\ output.ok) => AllTagged("__datetime__", IsLayoutText)

\* C18: a plural accessor that reports ok = false returns an empty list, no
\* prefix of converted elements.
C18_NoPartialList ==
    (op \in {"GetStrings", "GetStringsAtIndex", "GetDatas", "GetDatasAtIndex",
             "GetDateTimes", "GetDateTimesAtIndex"}
        /\ ~output.panic /\ ~output.ok) => output.v = <<>>

====
